---- MODULE Spec2Model ----
(***************************************************************************)
(* libkzg: KZG polynomial commitments over BN254 (ts/index.ts) and the     *)
(* Solidity verifier (sol/KZGVerifier.sol, Pairing.sol).                   *)
(*                                                                         *)
(* The groups G1, G2 and GT have prime order r = FIELD_SIZE.  A point is   *)
(* modelled by its discrete logarithm to the generator (G1.g = 1, G2.g =   *)
(* 1), and the pairing e(a*G1, b*G2) = e(G1, G2)^(a*b) by the product of   *)
(* the logarithms mod r, so that bilinearity and non-degeneracy are those  *)
(* of the curve.  The 254-bit modulus is scaled down to a small prime.     *)
(***************************************************************************)
EXTENDS Integers, Sequences, FiniteSets, TLC

\* ------------------------------------------------------------------ bounds
\* Index into SmallPrimes of the prime that stands for the scalar modulus.
FieldChoice == 2
\* Longest coefficient list a session commits to.
MaxLen == 3

SmallPrimes == <<3, 5, 7, 11, 13>>

\* ts/index.ts:322 FIELD_SIZE (the BN254 scalar modulus, also the order of
\* G1, G2 and GT), scaled down.
FIELD_SIZE == SmallPrimes[FieldChoice]

\* sol/KZGVerifier.sol: Constants.BABYJUB_P, the same modulus.
BABYJUB_P == FIELD_SIZE

Max(S) == CHOOSE x \in S : \A y \in S : y <= x

\* ------------------------------------------------ galois: prime field ops
\* field.mod / add / sub / mul of galois.createPrimeField(m)
fmod(a, m) == a % m
fadd(a, b, m) == (a + b) % m
fsub(a, b, m) == (a - b) % m
fmul(a, b, m) == (a * b) % m

RECURSIVE fexp(_, _, _)
fexp(b, e, m) ==
    IF e = 0 THEN 1 % m
    ELSE LET h == fexp(b, e \div 2, m)
         IN  IF e % 2 = 0 THEN fmul(h, h, m) ELSE fmul(fmul(h, h, m), b, m)

\* field.inv: the multiplicative inverse; inv(0) = 0
finv(a, m) == IF a % m = 0 THEN 0 ELSE fexp(a % m, m - 2, m)

\* field.div(a, b) = a * inv(b)
fdiv(a, b, m) == fmul(a % m, finv(b, m), m)

\* --------------------------------------------- galois: polynomials
\* A polynomial is the sequence of its coefficients, lowest degree first
\* (values[1] is the constant term).  Operations that can throw return
\* [ok |-> BOOLEAN, v |-> value].

\* field.evalPolyAt(poly, x)
RECURSIVE evalPolyAt(_, _, _)
evalPolyAt(poly, x, m) ==
    IF poly = <<>> THEN 0
    ELSE fadd(poly[1], fmul(x % m, evalPolyAt(Tail(poly), x, m), m), m)

\* field.subPolys(a, b): the shorter operand is padded with zeros
subPolys(a, b, m) ==
    [i \in 1..Max({Len(a), Len(b)}) |->
        fsub(IF i <= Len(a) THEN a[i] ELSE 0,
             IF i <= Len(b) THEN b[i] ELSE 0, m)]

\* field.addPolys(a, b)
addPolys(a, b, m) ==
    [i \in 1..Max({Len(a), Len(b)}) |->
        fadd(IF i <= Len(a) THEN a[i] ELSE 0,
             IF i <= Len(b) THEN b[i] ELSE 0, m)]

\* field.mulPolyByConstant(a, c)
mulPolyByConstant(a, c, m) == [i \in 1..Len(a) |-> fmul(a[i], c, m)]

\* field.mulPolys(a, b): schoolbook product, length Len(a) + Len(b) - 1
mulTerm(a, b, k, m) ==
    LET Is == {i \in 1..Len(a) : k + 1 - i >= 1 /\ k + 1 - i <= Len(b)}
        RECURSIVE sum(_)
        sum(S) == IF S = {} THEN 0
                  ELSE LET i == CHOOSE i \in S : TRUE
                       IN  fadd(fmul(a[i], b[k + 1 - i], m), sum(S \ {i}), m)
    IN  sum(Is)
mulPolys(a, b, m) ==
    IF a = <<>> \/ b = <<>> THEN <<>>
    ELSE [k \in 1..(Len(a) + Len(b) - 1) |-> mulTerm(a, b, k, m)]

\* The position (1-based) of the highest non-zero coefficient; 0 stands for
\* the JavaScript undefined the library returns for an all-zero vector.
lastNonZeroIndex(values) ==
    LET S == {i \in 1..Len(values) : values[i] # 0}
    IN  IF S = {} THEN 0 ELSE Max(S)

\* The polynomial without its trailing zero coefficients
trim(poly) == SubSeq(poly, 1, lastNonZeroIndex(poly))

\* The long-division loop of field.divPolys: one quotient coefficient per
\* step, highest first; the remainder is dropped.
RECURSIVE divLoop(_, _, _, _, _, _)
divLoop(a, b, bpos, diff, acc, m) ==
    IF diff < 0 THEN acc
    ELSE LET quot == fdiv(a[diff + bpos], b[bpos], m)
             a2 == [j \in 1..Len(a) |->
                      IF j > diff /\ j <= diff + bpos
                      THEN fsub(a[j], b[j - diff] * quot, m)
                      ELSE a[j]]
         IN  divLoop(a2, b, bpos, diff - 1, <<quot>> \o acc, m)

\* field.divPolys(a, b).  With an all-zero dividend (or divisor)
\* lastNonZeroIndex is undefined, the order test "apos < bpos" is false and
\* new Array(NaN) raises a RangeError; a dividend of lower order than the
\* divisor raises 'Cannot divide by polynomial of higher order'.
divPolys(a, b, m) ==
    LET apos == lastNonZeroIndex(a)
        bpos == lastNonZeroIndex(b)
    IN  IF apos = 0 \/ bpos = 0 \/ apos < bpos
        THEN [ok |-> FALSE, v |-> <<>>]
        ELSE [ok |-> TRUE, v |-> divLoop(a, b, bpos, apos - bpos, <<>>, m)]

\* ------------------------------------------------------------- state
\* galois zpoly(xs): the product of (x - xs[i])
RECURSIVE zpoly(_, _)
zpoly(xs, m) ==
    IF xs = <<>> THEN <<1>>
    ELSE mulPolys(zpoly(Tail(xs), m), <<fsub(0, xs[1], m), 1>>, m)

\* galois field.interpolate(xs, ys): Lagrange interpolation.  numerators[i]
\* is zpoly(xs) / (x - xs[i]); the inverse of a zero denominator is 0.
interpolate(xs, ys, m) ==
    LET n == Len(xs)
        root == zpoly(xs, m)
        numerators == [i \in 1..n |->
                         divPolys(root, <<fsub(0, xs[i], m), 1>>, m).v]
        denominators == [i \in 1..n |-> evalPolyAt(numerators[i], xs[i], m)]
        ySlice == [i \in 1..n |-> fmul(ys[i], finv(denominators[i], m), m)]
        term(i, j) == IF j <= Len(numerators[i]) /\ numerators[i][j] # 0
                           /\ ys[i] # 0
                      THEN fmul(numerators[i][j], ySlice[i], m) ELSE 0
        sum[i \in 0..n, j \in 1..n] ==
            IF i = 0 THEN 0 ELSE fadd(sum[i - 1, j], term(i, j), m)
    IN  [j \in 1..n |-> sum[n, j]]

VARIABLES
    tau,           \* the secret of the packaged SRS: SRS_G2[1] = tau * G2.g
    coefficients,  \* the polynomial the prover holds
    index,         \* the x-value the prover opens it at
    commitment,    \* the result of commit(coefficients), once computed
    proof,         \* the result of genProof(coefficients, index), once computed
    call,          \* the last verifier call: its arguments and its outcome
    calc,          \* the last call of a function on polynomials, with its result
    indices        \* the x-values a multi-point proof opens the polynomial at

vars == <<tau, coefficients, index, commitment, proof, call, calc, indices>>

\* ------------------------------------------- ffjavascript: G1 and G2
\* A point is [c |-> the class of its coordinates, k |-> its logarithm]:
\*   "curve"   affine coordinates (x, y, 1) of a non-zero point k * g
\*   "zero010" the triple (0, 1, 0): G.zero, which G.affine returns as is
\*   "inf00"   the pair (0, 0): the point at infinity of EIP-196/197
\*   "off"     coordinates that satisfy no curve equation (an honest point
\*             with a coordinate changed, or the pair (0, 1))
Pt(k) == IF k % FIELD_SIZE = 0 THEN [c |-> "zero010", k |-> 0]
         ELSE [c |-> "curve", k |-> k % FIELD_SIZE]
OffCurve == [c |-> "off", k |-> 0]
G1g == Pt(1)
G2g == Pt(1)
Gzero == Pt(0)
GPoints == {Pt(k) : k \in 0..(FIELD_SIZE - 1)}
onCurve(P) == P.c \in {"curve", "zero010"}

\* G.add, G.neg, G.sub, G.mulScalar.  The curve formulas applied to a
\* triple that is off the curve stay off the curve.
Gadd(P, Q) == IF onCurve(P) /\ onCurve(Q) THEN Pt(P.k + Q.k) ELSE OffCurve
Gneg(P) == IF onCurve(P) THEN Pt(FIELD_SIZE - P.k) ELSE OffCurve
Gsub(P, Q) == Gadd(P, Gneg(Q))
GmulScalar(P, s) ==
    IF onCurve(P) THEN Pt(P.k * (s % FIELD_SIZE)) ELSE OffCurve
\* G.affine: the same point with Z normalised; G.zero stays (0, 1, 0)
Gaffine(P) == P

\* The elements of GT, by their exponent to e(G1.g, G2.g); 0 is F12.one.
GT == 0..(FIELD_SIZE - 1)

\* ffjavascript.bn128.pairing(P, Q): e(P, Q) for points of the groups.  For
\* coordinates off the curve the Miller loop and the final exponentiation
\* still produce an element of GT, which one the model leaves open.
pairing(P, Q) ==
    IF onCurve(P) /\ onCurve(Q) THEN {(P.k * Q.k) % FIELD_SIZE} ELSE GT

\* ------------------------------------------------------------- the SRS
Thrown(v) == [ok |-> FALSE, v |-> v]
Returned(v) == [ok |-> TRUE, v |-> v]

\* The number of G1 powers srsG1 hands out: assert(depth <= 128), scaled.
SrsG1Points == MaxLen

\* ts/index.ts:350 srsG1(depth): the first depth powers tau^i * G1.g.  The
\* assertions on g1[0] raise a TypeError when depth = 0 (g1[0] is undefined).
srsG1(depth) ==
    IF depth > SrsG1Points \/ depth = 0 THEN Thrown(<<>>)
    ELSE Returned([i \in 1..depth |-> Pt(fexp(tau, i - 1, FIELD_SIZE))])

\* srsG2 with its two elements exchanged
srsG2_swapped == <<Pt(tau), G2g>>
\* ts/index.ts:374 srsG2(): [G2.g, tau * G2.g]
srsG2 == <<G2g, Pt(tau)>>

\* ---------------------------------------------------------- commitments
\* ts/index.ts:405 polyCommit(coefficients, G, srs): the loop of
\* result = G.affine(G.add(result, G.mulScalar(srs[i], coeff))), started at
\* G.zero.  A coefficient beyond the SRS reads srs[i] = undefined and raises.
RECURSIVE polyCommitLoop(_, _, _, _)
polyCommitLoop(coeffs, srs, i, result) ==
    IF i > Len(coeffs) THEN result
    ELSE polyCommitLoop(coeffs, srs, i + 1,
             Gaffine(Gadd(result, GmulScalar(srs[i], coeffs[i]))))

polyCommit(coeffs, srs) ==
    IF Len(coeffs) > Len(srs) \/ \E i \in 1..Len(coeffs) : coeffs[i] < 0
    THEN Thrown(Gzero)
    ELSE Returned(polyCommitLoop(coeffs, srs, 1, Gzero))

\* ts/index.ts:398 commit(coefficients)
commit(coeffs) ==
    LET srs == srsG1(Len(coeffs))
    IN  IF ~srs.ok THEN Thrown(Gzero) ELSE polyCommit(coeffs, srs.v)

\* ----------------------------------------------------------- the prover
\* ts/index.ts:435 genQuotientPolynominal(coefficients, xVal, p)
genQuotientPolynominal(coeffs, xVal, p) ==
    LET yVal == evalPolyAt(coeffs, xVal, p)
    IN  divPolys(subPolys(coeffs, <<yVal>>, p),
                 subPolys(<<0, 1>>, <<xVal>>, p), p)

\* ts/index.ts:463 genProof(coefficients, index, p)
genProof(coeffs, idx, p) ==
    LET quotient == genQuotientPolynominal(coeffs, idx, p)
    IN  IF ~quotient.ok THEN Thrown(Gzero) ELSE commit(quotient.v)

\* -------------------------------------------------- off-chain verifiers
\* verify with the index's commitment left out of the right-hand side
verify_noIndex(cm, pf, idx, value) ==
    LET srs == srsG2
        aCommit == commit(<<value>>).v
        xCommit == srs[2]
        lhs == pairing(Gaffine(Gsub(cm, aCommit)), G2g)
        rhs == pairing(pf, Gaffine(xCommit))
    IN  {IF l = rr THEN "true" ELSE "false" : l \in lhs, rr \in rhs}

\* ts/index.ts:472 verify(commitment, proof, index, value): the outcomes of
\* F12.eq(lhs, rhs), one when every pairing input is a point of its group.
verify(cm, pf, idx, value) ==
    LET srs == srsG2
        aCommit == commit(<<value>>).v
        xCommit == srs[2]
        zCommit == polyCommit(<<idx>>, srs).v
        lhs == pairing(Gaffine(Gsub(cm, aCommit)), G2g)
        rhs == pairing(pf, Gaffine(Gsub(xCommit, zCommit)))
    IN  {IF l = rr THEN "true" ELSE "false" : l \in lhs, rr \in rhs}

\* The two coordinates isValidPairing passes to hexify, affine[0] and
\* affine[1]: those of a non-zero point, and (0, 1) for G.zero.
toWire(P) == IF P.c = "curve" THEN P ELSE OffCurve

\* A pair of coordinates that EIP-196/197 decodes to a point: a point of the
\* curve or (0, 0).
wireValid(W) == W.c \in {"curve", "inf00"}

\* The EIP-197 check on decoded pairs: the product of the e(G1_i, G2_i) is one
RECURSIVE pairingSum(_)
pairingSum(pairs) ==
    IF pairs = <<>> THEN 0
    ELSE (pairs[1].G1.k * pairs[1].G2.k + pairingSum(Tail(pairs))) % FIELD_SIZE

\* isValidPairing without its assertion on the number of inputs: rustbn.js
\* answers 1 on the empty input
isValidPairing_noAssert(inputs) ==
    LET wires == [i \in 1..Len(inputs) |->
                     [G1 |-> toWire(Gaffine(inputs[i].G1)),
                      G2 |-> toWire(Gaffine(inputs[i].G2))]]
    IN  IF \E i \in 1..Len(wires) :
               ~wireValid(wires[i].G1) \/ ~wireValid(wires[i].G2)
        THEN "false"
        ELSE IF pairingSum(wires) = 0 THEN "true" ELSE "false"

\* ts/index.ts:632 isValidPairing(inputs): rustbn.js returns an empty buffer
\* when a pair does not decode.
isValidPairing(inputs) ==
    IF Len(inputs) = 0 THEN "throw"
    ELSE LET wires == [i \in 1..Len(inputs) |->
                          [G1 |-> toWire(Gaffine(inputs[i].G1)),
                           G2 |-> toWire(Gaffine(inputs[i].G2))]]
         IN  IF \E i \in 1..Len(wires) :
                    ~wireValid(wires[i].G1) \/ ~wireValid(wires[i].G2)
             THEN "false"
             ELSE IF pairingSum(wires) = 0 THEN "true" ELSE "false"

\* ts/index.ts:517 verifyViaEIP197(commitment, proof, index, value)
verifyViaEIP197(cm, pf, idx, value) ==
    LET srs == srsG2
        aCommit == commit(<<value>>).v
        xCommit == polyCommit(<<0, 1>>, srs).v
        inputs == << [G1 |-> Gaffine(Gadd(GmulScalar(pf, idx),
                                          Gsub(cm, aCommit))),
                      G2 |-> G2g],
                     [G1 |-> Gaffine(Gneg(pf)), G2 |-> xCommit] >>
    IN  isValidPairing(inputs)

\* ts/index.ts:561 genVerifierContractParams: coordinates [0] and [1] of the
\* commitment and of the proof, the index and the value
genVerifierContractParams(cm, pf, idx, value) ==
    [commitment |-> toWire(cm), proof |-> toWire(pf),
     index |-> idx, value |-> value]

\* ------------------------------------------------------ Pairing library
WireInf == [c |-> "inf00", k |-> 0]
WPt(k) == IF k % FIELD_SIZE = 0 THEN WireInf
          ELSE [c |-> "curve", k |-> k % FIELD_SIZE]

\* PRIME_Q exceeds BABYJUB_P, so a point of the curve can have a coordinate
\* in [BABYJUB_P, PRIME_Q).  The model gives such a coordinate to one non-zero
\* point of G1 and to one of G2, neither of them a generator.
HighG1 == {FIELD_SIZE - 1}
HighG2 == {FIELD_SIZE - 2}
\* Both coordinates of the G1 point, or all four of the G2 point, are below
\* BABYJUB_P
belowBabyJubP(p) == ~(p.c = "curve" /\ p.k \in HighG1)
belowBabyJubP2(p) == ~(p.c = "curve" /\ p.k \in HighG2)

\* Pairing.negate(p)
Pairing_negate(p) ==
    IF p.c = "inf00" THEN WireInf
    ELSE IF p.c = "curve" THEN WPt(FIELD_SIZE - p.k)
    ELSE OffCurve

\* Pairing.plus(p1, p2): precompile 6; it fails, and the call reverts, on
\* coordinates that are no point
Pairing_plus(p1, p2) ==
    IF wireValid(p1) /\ wireValid(p2) THEN Returned(WPt(p1.k + p2.k))
    ELSE Thrown(OffCurve)

\* Pairing.mulScalar(p, s): precompile 7
Pairing_mulScalar(p, s) ==
    IF wireValid(p) THEN Returned(WPt(p.k * (s % FIELD_SIZE)))
    ELSE Thrown(OffCurve)

\* Pairing.pairing(a1, a2, b1, b2): precompile 8 on the two pairs
Pairing_pairing(a1, a2, b1, b2) ==
    IF ~(wireValid(a1) /\ wireValid(a2) /\ wireValid(b1) /\ wireValid(b2))
    THEN "revert"
    ELSE IF pairingSum(<<[G1 |-> a1, G2 |-> a2], [G1 |-> b1, G2 |-> b2]>>) = 0
         THEN "true" ELSE "false"

\* ------------------------------------------------- the Verifier contract
SRS_G1_0 == WPt(1)
g2Generator == WPt(1)
SRS_G2_1 == WPt(tau)

\* Verifier.verify with the proof not negated in the second pair
Verifier_verify_noNegate(cm, pf, idx, value) ==
    IF \/ ~belowBabyJubP(cm) \/ ~belowBabyJubP(pf)
       \/ idx >= BABYJUB_P \/ value >= BABYJUB_P
    THEN "revert"
    ELSE
    LET aCommit == Pairing_mulScalar(SRS_G1_0, value)
        commitmentMinusA == Pairing_plus(cm, Pairing_negate(aCommit.v))
        indexMulProof == Pairing_mulScalar(pf, idx)
        sum == Pairing_plus(indexMulProof.v, commitmentMinusA.v)
    IN  IF ~aCommit.ok \/ ~commitmentMinusA.ok \/ ~indexMulProof.ok \/ ~sum.ok
        THEN "revert"
        ELSE Pairing_pairing(sum.v, g2Generator, pf, SRS_G2_1)

\* Verifier.verify without its requirements on the index and the value
Verifier_verify_noRange(cm, pf, idx, value) ==
    IF ~belowBabyJubP(cm) \/ ~belowBabyJubP(pf)
    THEN "revert"
    ELSE
    LET aCommit == Pairing_mulScalar(SRS_G1_0, value)
        commitmentMinusA == Pairing_plus(cm, Pairing_negate(aCommit.v))
        negProof == Pairing_negate(pf)
        indexMulProof == Pairing_mulScalar(pf, idx)
        sum == Pairing_plus(indexMulProof.v, commitmentMinusA.v)
    IN  IF ~aCommit.ok \/ ~commitmentMinusA.ok \/ ~indexMulProof.ok \/ ~sum.ok
        THEN "revert"
        ELSE Pairing_pairing(sum.v, g2Generator, negProof, SRS_G2_1)

\* sol/KZGVerifier.sol:45 Verifier.verify(_commitment, _proof, _index, _value)
Verifier_verify(cm, pf, idx, value) ==
    IF \/ ~belowBabyJubP(cm) \/ ~belowBabyJubP(pf)
       \/ idx >= BABYJUB_P \/ value >= BABYJUB_P
    THEN "revert"
    ELSE
    LET aCommit == Pairing_mulScalar(SRS_G1_0, value)
        commitmentMinusA == Pairing_plus(cm, Pairing_negate(aCommit.v))
        negProof == Pairing_negate(pf)
        indexMulProof == Pairing_mulScalar(pf, idx)
        sum == Pairing_plus(indexMulProof.v, commitmentMinusA.v)
    IN  IF ~aCommit.ok \/ ~commitmentMinusA.ok \/ ~indexMulProof.ok \/ ~sum.ok
        THEN "revert"
        ELSE Pairing_pairing(sum.v, g2Generator, negProof, SRS_G2_1)

\* ------------------------------------------------ Verifier: multi-point
\* Constants.SRS_G1_X[i], SRS_G1_Y[i]: the contract holds one power more
\* than srsG1 returns
ContractSrsPoints == SrsG1Points + 1
SRS_G1(i) == WPt(fexp(tau, i - 1, FIELD_SIZE))

\* sol/KZGVerifier.sol:106 Verifier.commit(coefficients)
RECURSIVE Verifier_commitLoop(_, _, _)
Verifier_commitLoop(coeffs, i, result) ==
    IF i > Len(coeffs) THEN result
    ELSE Verifier_commitLoop(coeffs, i + 1,
           Pairing_plus(result,
                        Pairing_mulScalar(SRS_G1(i), coeffs[i]).v).v)
Verifier_commit(coeffs) ==
    IF Len(coeffs) > ContractSrsPoints THEN Thrown(OffCurve)
    ELSE Returned(Verifier_commitLoop(coeffs, 1, WireInf))

\* sol/KZGVerifier.sol:131 Verifier.evalPolyAt(_coefficients, _index)
RECURSIVE Verifier_evalLoop(_, _, _, _, _)
Verifier_evalLoop(coeffs, idx, i, result, powerOfX) ==
    IF i > Len(coeffs) THEN result
    ELSE Verifier_evalLoop(coeffs, idx, i + 1,
           (result + ((powerOfX * coeffs[i]) % BABYJUB_P)) % BABYJUB_P,
           (powerOfX * idx) % BABYJUB_P)
\* evalPolyAt with powerOfX started at _index
Verifier_evalPolyAt_fromIndex(coeffs, idx) ==
    Verifier_evalLoop(coeffs, idx, 1, 0, idx % BABYJUB_P)
Verifier_evalPolyAt(coeffs, idx) == Verifier_evalLoop(coeffs, idx, 1, 0, 1)

\* The requires of Verifier.verifyMulti that precede the commitments
multiChecksPass(cm, pf, idxs, values, iCoeffs, zCoeffs) ==
    /\ belowBabyJubP(cm) /\ belowBabyJubP2(pf)
    /\ \A i \in 1..Len(iCoeffs) : iCoeffs[i] < BABYJUB_P
    /\ \A i \in 1..Len(zCoeffs) : zCoeffs[i] < BABYJUB_P
    /\ Len(values) >= Len(idxs)
    /\ \A i \in 1..Len(idxs) :
         /\ idxs[i] < BABYJUB_P /\ values[i] < BABYJUB_P
         /\ Verifier_evalPolyAt(zCoeffs, idxs[i]) = 0
         /\ Verifier_evalPolyAt(iCoeffs, idxs[i]) = values[i]

\* sol/KZGVerifier.sol:194 the loop of Verifier.verifyMulti over the indices:
\* the message of the first require that fails, "none" when all pass.
\* coefficientChecks_noZ is the loop without the require on zEval.
RECURSIVE coefficientChecks_noZ(_, _, _, _, _)
coefficientChecks_noZ(idxs, values, iCoeffs, zCoeffs, i) ==
    IF i > Len(idxs) THEN "none"
    ELSE IF idxs[i] >= BABYJUB_P THEN "an index is out of range"
    ELSE IF values[i] >= BABYJUB_P THEN "a value is out of range"
    ELSE IF Verifier_evalPolyAt(iCoeffs, idxs[i]) # values[i]
         THEN "invalid _iCoeffs"
    ELSE coefficientChecks_noZ(idxs, values, iCoeffs, zCoeffs, i + 1)

RECURSIVE coefficientChecks(_, _, _, _, _)
coefficientChecks(idxs, values, iCoeffs, zCoeffs, i) ==
    IF i > Len(idxs) THEN "none"
    ELSE IF idxs[i] >= BABYJUB_P THEN "an index is out of range"
    ELSE IF values[i] >= BABYJUB_P THEN "a value is out of range"
    ELSE IF Verifier_evalPolyAt(zCoeffs, idxs[i]) # 0
         THEN "invalid _zCoeffs"
    ELSE IF Verifier_evalPolyAt(iCoeffs, idxs[i]) # values[i]
         THEN "invalid _iCoeffs"
    ELSE coefficientChecks(idxs, values, iCoeffs, zCoeffs, i + 1)

\* sol/KZGVerifier.sol:178 the message Verifier.verifyMulti reverts with in
\* its requires, "none" when it goes on to the commitments and the pairing
Verifier_verifyMulti_message(cm, pf, idxs, values, iCoeffs, zCoeffs) ==
    IF ~belowBabyJubP(cm) THEN "_commitment is out of range"
    ELSE IF ~belowBabyJubP2(pf) THEN "_proof is out of range"
    ELSE IF \E i \in 1..Len(iCoeffs) : iCoeffs[i] >= BABYJUB_P
         THEN "an _iCoeffs value is out of range"
    ELSE IF \E i \in 1..Len(zCoeffs) : zCoeffs[i] >= BABYJUB_P
         THEN "an _zCoeffs value is out of range"
    ELSE coefficientChecks(idxs, values, iCoeffs, zCoeffs, 1)

\* Verifier.verifyMulti with the commitment of zCoeffs not negated
Verifier_verifyMulti_noNegate(cm, pf, idxs, values, iCoeffs, zCoeffs) ==
    IF ~multiChecksPass(cm, pf, idxs, values, iCoeffs, zCoeffs) THEN "revert"
    ELSE
    LET zCommit == Verifier_commit(zCoeffs)
        iCommit == Verifier_commit(iCoeffs)
        commitmentMinusICommit == Pairing_plus(cm, Pairing_negate(iCommit.v))
    IN  IF ~zCommit.ok \/ ~iCommit.ok \/ ~commitmentMinusICommit.ok
        THEN "revert"
        ELSE Pairing_pairing(zCommit.v, pf,
                             commitmentMinusICommit.v, g2Generator)

\* sol/KZGVerifier.sol:169 Verifier.verifyMulti(_commitment, _proof,
\* _indices, _values, _iCoeffs, _zCoeffs)
Verifier_verifyMulti(cm, pf, idxs, values, iCoeffs, zCoeffs) ==
    IF ~multiChecksPass(cm, pf, idxs, values, iCoeffs, zCoeffs) THEN "revert"
    ELSE
    LET zCommit == Verifier_commit(zCoeffs)
        iCommit == Verifier_commit(iCoeffs)
        commitmentMinusICommit == Pairing_plus(cm, Pairing_negate(iCommit.v))
    IN  IF ~zCommit.ok \/ ~iCommit.ok \/ ~commitmentMinusICommit.ok
        THEN "revert"
        ELSE Pairing_pairing(Pairing_negate(zCommit.v), pf,
                             commitmentMinusICommit.v, g2Generator)

\* ------------------------------------- multi-point prover and verifier
\* genMultiProof, verifyMulti and genMultiVerifierContractParams, which the
\* tests import from the library, after the specification (4.2, 4.5, 4.6, 6).

\* 4.4 g1_powers, g2_powers: the packaged powers of the secret
srsPowers(depth) == [i \in 1..depth |-> Pt(fexp(tau, i - 1, FIELD_SIZE))]

\* 4.5 commit_g1, commit_g2: the identity for the empty list
commitPowers(coeffs) == polyCommit(coeffs, srsPowers(ContractSrsPoints))

\* 4.2 exact division: the quotient, or a failure on a non-zero remainder
divExact(a, b, m) ==
    IF lastNonZeroIndex(b) = 0 THEN Thrown(<<>>)
    ELSE IF lastNonZeroIndex(a) = 0 THEN Returned(<<>>)
    ELSE LET q == divPolys(a, b, m)
         IN  IF q.ok /\ trim(subPolys(a, mulPolys(q.v, b, m), m)) = <<>>
             THEN q ELSE Thrown(<<>>)

\* 4.6 multi-point prover
genMultiProof(coeffs, idxs, m) ==
    LET ys == [j \in 1..Len(idxs) |-> evalPolyAt(coeffs, idxs[j], m)]
        iPoly == interpolate(idxs, ys, m)
        zPoly == zpoly(idxs, m)
        q == divExact(subPolys(coeffs, iPoly, m), zPoly, m)
    IN  IF ~q.ok THEN Thrown(Gzero) ELSE commitPowers(q.v)

\* 4.3 pairing_check: the product of the pairings is one
pairingCheck(pairs) ==
    IF \E i \in 1..Len(pairs) : ~onCurve(pairs[i].G1) \/ ~onCurve(pairs[i].G2)
    THEN "false"
    ELSE IF pairingSum(pairs) = 0 THEN "true" ELSE "false"

\* 4.6 multi-point verifier
verifyMulti(cm, pf, idxs, values, m) ==
    LET iC == commitPowers(interpolate(idxs, values, m)).v
        zC == commitPowers(zpoly(idxs, m)).v
    IN  pairingCheck(<<[G1 |-> Gneg(zC), G2 |-> pf],
                       [G1 |-> Gsub(cm, iC), G2 |-> G2g]>>)

\* The affine coordinates of a point as the contract receives them; the
\* specification does not say which coordinates stand for the zero point.
affineWords(P) ==
    IF P.c = "curve" THEN {P}
    ELSE IF P.c = "zero010" THEN {WireInf, OffCurve}
    ELSE {OffCurve}

\* 6 multi-point contract parameter packer
genMultiVerifierContractParams(cm, pf, idxs, values, m) ==
    {[commitment |-> c, proof |-> f, indices |-> idxs, values |-> values,
      iCoeffs |-> interpolate(idxs, values, m), zCoeffs |-> zpoly(idxs, m)] :
        c \in affineWords(cm), f \in affineWords(pf)}

\* genCoefficients with the x-values numbered from 1
genCoefficients_fromOne(values, p, fieldSize) ==
    IF \E i \in 1..Len(values) : values[i] >= fieldSize THEN Thrown(<<>>)
    ELSE LET x == [i \in 1..Len(values) |-> i]
             coeffs == interpolate(x, values, p)
         IN  IF \E i \in 1..Len(coeffs) : coeffs[i] >= fieldSize
             THEN Thrown(<<>>) ELSE Returned(coeffs)

\* ts/index.ts:588 genCoefficients(values, p).  fieldSize is FIELD_SIZE, the
\* bound of the assertions on the values and on the coefficients.
genCoefficients(values, p, fieldSize) ==
    IF \E i \in 1..Len(values) : values[i] >= fieldSize THEN Thrown(<<>>)
    ELSE LET x == [i \in 1..Len(values) |-> i - 1]
             coeffs == interpolate(x, values, p)
         IN  IF \E i \in 1..Len(coeffs) : coeffs[i] >= fieldSize
             THEN Thrown(<<>>) ELSE Returned(coeffs)

\* ------------------------------------------------------------- sessions
Scalars == 0..(FIELD_SIZE - 1)
Polys == UNION {[1..n -> Scalars] : n \in 0..MaxLen}

NotYet == [done |-> FALSE, ok |-> FALSE, v |-> OffCurve]
Done(res) == [done |-> TRUE, ok |-> res.ok, v |-> res.v]
NoCall == [op |-> "none", commitment |-> OffCurve, proof |-> OffCurve,
           index |-> 0, value |-> 0, result |-> "none"]
NoCalc == [fn |-> "none"]

\* The value the polynomial takes at the index: field.evalPolyAt
honestValue == evalPolyAt(coefficients, index, FIELD_SIZE)

\* The claims a verifier is called with: the honest claim with at most one of
\* the proof, the index and the value replaced; the index and the value are
\* also replaced by integers outside [0, r), z = r and eval(p, z) + r.
ProofChoices == GPoints \cup {OffCurve}
HonestProof == IF proof.ok THEN {proof.v} ELSE {}
Claims ==
    {<<pf, index, honestValue>> : pf \in ProofChoices}
    \cup {<<pf, z, honestValue>> : pf \in HonestProof, z \in Scalars}
    \cup {<<pf, index, y>> : pf \in HonestProof, y \in Scalars}
    \cup {<<pf, FIELD_SIZE, honestValue>> : pf \in HonestProof}
    \cup {<<pf, index, honestValue + FIELD_SIZE>> : pf \in HonestProof}

Init ==
    /\ tau \in 2..(FIELD_SIZE - 1)
    /\ coefficients \in Polys
    /\ index \in Scalars
    /\ commitment = NotYet
    /\ proof = NotYet
    /\ call = NoCall
    /\ calc = NoCalc
    /\ indices = <<>>

\* The prover commits to its polynomial.
Commit ==
    /\ ~commitment.done
    /\ commitment' = Done(commit(coefficients))
    /\ UNCHANGED <<tau, coefficients, index, proof, call, calc, indices>>

\* The prover opens the polynomial at the index.
GenProof ==
    /\ commitment.done /\ ~proof.done
    /\ proof' = Done(genProof(coefficients, index, FIELD_SIZE))
    /\ UNCHANGED <<tau, coefficients, index, commitment, call, calc, indices>>

Ready == commitment.ok /\ proof.done /\ call.op = "none"

Verify ==
    /\ Ready
    /\ \E cl \in Claims :
         \E res \in verify(commitment.v, cl[1], cl[2], cl[3]) :
            call' = [op |-> "verify", commitment |-> commitment.v,
                     proof |-> cl[1], index |-> cl[2], value |-> cl[3],
                     result |-> res]
    /\ UNCHANGED <<tau, coefficients, index, commitment, proof, calc, indices>>

VerifyViaEIP197 ==
    /\ Ready
    /\ \E cl \in Claims :
         call' = [op |-> "verifyViaEIP197", commitment |-> commitment.v,
                  proof |-> cl[1], index |-> cl[2], value |-> cl[3],
                  result |-> verifyViaEIP197(commitment.v, cl[1], cl[2], cl[3])]
    /\ UNCHANGED <<tau, coefficients, index, commitment, proof, calc, indices>>

\* The contract is called with the parameters genVerifierContractParams
\* builds from a claim, or with the proof replaced by (0, 0).
ContractVerify ==
    /\ Ready
    /\ \E cl \in Claims :
         LET params == genVerifierContractParams(commitment.v, cl[1], cl[2], cl[3])
         IN  \E pf \in {params.proof} \cup
                       (IF cl[2] = index /\ cl[3] = honestValue
                        THEN {WireInf} ELSE {}) :
               call' = [op |-> "Verifier.verify",
                        commitment |-> params.commitment,
                        proof |-> pf, index |-> params.index,
                        value |-> params.value,
                        result |-> Verifier_verify(params.commitment, pf,
                                                   params.index, params.value)]
    /\ UNCHANGED <<tau, coefficients, index, commitment, proof, calc, indices>>

Next == Commit \/ GenProof \/ Verify \/ VerifyViaEIP197 \/ ContractVerify

Spec == Init /\ [][Next]_vars
\* ------------------------------------------ functions on polynomials
\* The library's functions on polynomials, each called once on inputs drawn
\* from the sets below.
MaxLenAlg == 2
MaxValues == 3
\* FIELD_SIZE as the known-answer tests see it: larger than their numbers
LargeFieldSize == 257
\* coefficients that sum and scale to zero, past the modulus and within it
AlgCoefficients == {0, 1, 2, FIELD_SIZE - 1}
PolysAlg == UNION {[1..n -> AlgCoefficients] : n \in 0..MaxLenAlg}
InterpModuli == {2, 3, 5, 7}
ValueLists(p) == UNION {[1..n -> 0..(p - 1)] : n \in 0..MaxValues}
\* Value lists with a negative bigint
SignedLists == UNION {[1..n -> {-1, 0, 1}] : n \in 1..2}
InterpInputs ==
    UNION {{<<v, p, FIELD_SIZE>> : v \in ValueLists(p)} : p \in InterpModuli}
    \cup {<<(<<5, 25, 125>>), 127, LargeFieldSize>>}
    \cup {<<v, FIELD_SIZE, FIELD_SIZE>> : v \in SignedLists}
QuotientInputs ==
    {<<c, z, FIELD_SIZE>> : c \in Polys, z \in Scalars}
    \cup {<<(<<5, 0, 2, 1>>), 6, LargeFieldSize>>}

InitAlgebra ==
    /\ tau \in 2..(FIELD_SIZE - 1)
    /\ coefficients = <<>>
    /\ index = 0
    /\ commitment = NotYet
    /\ proof = NotYet
    /\ call = NoCall
    /\ calc = NoCalc
    /\ indices = <<>>

\* commit(p + q) next to commit(p) and commit(q)
CommitSum ==
    /\ calc.fn = "none"
    /\ \E p \in PolysAlg, q \in PolysAlg :
         calc' = [fn |-> "commitSum", p |-> p, q |-> q,
                  ofSum |-> commit(addPolys(p, q, FIELD_SIZE)),
                  ofP |-> commit(p), ofQ |-> commit(q)]
    /\ UNCHANGED <<tau, coefficients, index, commitment, proof, call, indices>>

\* commit(alpha * p) next to commit(p)
CommitScaled ==
    /\ calc.fn = "none"
    /\ \E p \in PolysAlg, alpha \in Scalars :
         calc' = [fn |-> "commitScaled", p |-> p, alpha |-> alpha,
                  ofScaled |-> commit(mulPolyByConstant(p, alpha, FIELD_SIZE)),
                  ofP |-> commit(p)]
    /\ UNCHANGED <<tau, coefficients, index, commitment, proof, call, indices>>

GenCoefficients ==
    /\ calc.fn = "none"
    /\ \E in \in InterpInputs :
         calc' = [fn |-> "genCoefficients", values |-> in[1], p |-> in[2],
                  fieldSize |-> in[3],
                  out |-> genCoefficients(in[1], in[2], in[3])]
    /\ UNCHANGED <<tau, coefficients, index, commitment, proof, call, indices>>

GenQuotientPolynominal ==
    /\ calc.fn = "none"
    /\ \E in \in QuotientInputs :
         calc' = [fn |-> "genQuotientPolynominal", coefficients |-> in[1],
                  xVal |-> in[2], p |-> in[3],
                  out |-> genQuotientPolynominal(in[1], in[2], in[3])]
    /\ UNCHANGED <<tau, coefficients, index, commitment, proof, call, indices>>

\* commit on one coefficient list, of a length up to one more than the
\* number of G1 powers srsG1 hands out
LongLists == [1..(SrsG1Points + 1) -> {0, 1}]
CommitInputs == Polys \cup LongLists
CommitList ==
    /\ calc.fn = "none"
    /\ \E c \in CommitInputs :
         calc' = [fn |-> "commit", coefficients |-> c, out |-> commit(c)]
    /\ UNCHANGED <<tau, coefficients, index, commitment, proof, call, indices>>

\* ------------------------------------------- the SRS constructors
\* ts/index.ts:31 srsG1(depth, secret): g1 starts as [G1.g]; each of the
\* depth rounds pushes G1.affine(G1.mulScalar(G1.g, s)) and multiplies s,
\* which starts at secret, by secret.
RECURSIVE srsG1Loop(_, _, _, _, _)
srsG1Loop(depth, secret, i, s, g1) ==
    IF i >= depth THEN g1
    ELSE srsG1Loop(depth, secret, i + 1, s * secret,
                   Append(g1, Gaffine(GmulScalar(G1g, s))))
\* srsG1(depth, secret) with g1 started empty
srsG1WithSecret_noGenerator(depth, secret) ==
    srsG1Loop(depth, secret, 0, secret, <<>>)
srsG1WithSecret(depth, secret) ==
    srsG1Loop(depth, secret, 0, secret, <<G1g>>)
\* ts/index.ts:50 srsG2(secret)
srsG2WithSecret(secret) == <<G2g, Gaffine(GmulScalar(G2g, secret))>>
\* ts/index.ts:350 srsG1(depth) on the content srsg1DataRaw of the packaged
\* file: the first depth entries, returned only when the first one is G1.g;
\* with depth = 0 the assertion reads g1[0][0] of undefined and raises.
srsG1FromFile(depth, srsg1DataRaw) ==
    IF depth > SrsG1Points THEN Thrown(<<>>)
    ELSE LET g1 == [i \in 1..depth |-> srsg1DataRaw[i]]
         IN  IF depth = 0 THEN Thrown(<<>>)
             ELSE IF g1[1] # G1g THEN Thrown(<<>>)
             ELSE Returned(g1)

\* ------------------------------------------- EIP-197 input packing
\* hexify and the loop of isValidPairing that builds hexStr, on coordinates.
\* A hex string is the sequence of its digits; a word has WordDigits digits
\* (64 in the source).  A pair is [G1 |-> <<x, y>>,
\* G2 |-> << <<x0, x1>>, <<y0, y1>> >>], the affine coordinates that
\* G1.affine and G2.affine hand to hexify.
WordDigits == 2
RECURSIVE toString16(_)
toString16(value) ==
    IF value < 16 THEN <<value>>
    ELSE toString16(value \div 16) \o <<value % 16>>
padStart(p, n) == [i \in 1..(n - Len(p)) |-> 0] \o p
hexify(value) ==
    LET p == toString16(value)
    IN IF Len(p) <= WordDigits THEN Returned(padStart(p, WordDigits))
       ELSE Thrown(<<>>)
hexStr_realFirst(input) ==
    << hexify(input.G1[1]), hexify(input.G1[2]),
       hexify(input.G2[1][1]), hexify(input.G2[1][2]),
       hexify(input.G2[2][1]), hexify(input.G2[2][2]) >>
hexStrOfPair(input) ==
    << hexify(input.G1[1]), hexify(input.G1[2]),
       hexify(input.G2[1][2]), hexify(input.G2[1][1]),
       hexify(input.G2[2][2]), hexify(input.G2[2][1]) >>
RECURSIVE hexStrLoop(_, _, _)
hexStrLoop(words, j, acc) ==
    IF j > Len(words) THEN Returned(acc)
    ELSE IF ~words[j].ok THEN Thrown(acc)
    ELSE hexStrLoop(words, j + 1, acc \o words[j].v)
RECURSIVE hexStr(_, _, _)
hexStr(inputs, i, acc) ==
    IF i > Len(inputs) THEN Returned(acc)
    ELSE LET r == hexStrLoop(hexStrOfPair(inputs[i]), 1, acc)
         IN IF r.ok THEN hexStr(inputs, i + 1, r.v) ELSE r

\* isValidPairing on a list of at most MaxPairs pairs of points
MaxPairs == 2
PairPoints == {Gzero, G1g, Pt(2), Pt(FIELD_SIZE - 1)}
PairingInputs ==
    UNION {[1..n -> [G1 : PairPoints, G2 : PairPoints]] : n \in 0..MaxPairs}
IsValidPairing ==
    /\ calc.fn = "none"
    /\ \E inputs \in PairingInputs :
         calc' = [fn |-> "isValidPairing", inputs |-> inputs,
                  out |-> isValidPairing(inputs)]
    /\ UNCHANGED <<tau, coefficients, index, commitment, proof, call, indices>>

\* ------------------------------------------ Pairing.negate on words
\* The curve y^2 = x^3 + 3 of the contract over a small base field: PRIME_Q
\* is 7, the curve has 13 points, (1, 2) among them, none with x = 0 or
\* y = 0, as on BN254.  A uint256 is a number of 0..UintMax, which exceeds
\* twice PRIME_Q as 2^256 - 1 does.  (0, 0) stands for the point at
\* infinity.
PRIME_Q == 7
UintMax == 15
G1Point(X, Y) == [X |-> X, Y |-> Y]
\* negate without its test for the point (0, 0)
negate_noInfinity(p) == G1Point(p.X, PRIME_Q - (p.Y % PRIME_Q))
\* unnamed/part_002:23 Pairing.negate(p)
negate(p) ==
    IF p.X = 0 /\ p.Y = 0 THEN G1Point(0, 0)
    ELSE G1Point(p.X, PRIME_Q - (p.Y % PRIME_Q))
\* EIP-196: a pair of coordinates is a point when it is (0, 0) or both are
\* below the modulus and satisfy the curve equation
isG1(p) ==
    \/ p.X = 0 /\ p.Y = 0
    \/ /\ p.X < PRIME_Q /\ p.Y < PRIME_Q
       /\ (p.Y * p.Y) % PRIME_Q = (p.X * p.X * p.X + 3) % PRIME_Q
\* EIP-196 addition of two points
ecAdd(p1, p2) ==
    IF p1 = G1Point(0, 0) THEN p2
    ELSE IF p2 = G1Point(0, 0) THEN p1
    ELSE IF p1.X = p2.X /\ (p1.Y + p2.Y) % PRIME_Q = 0 THEN G1Point(0, 0)
    ELSE LET lambda == IF p1 = p2
                       THEN fdiv(3 * p1.X * p1.X, 2 * p1.Y, PRIME_Q)
                       ELSE fdiv(fsub(p2.Y, p1.Y, PRIME_Q),
                                 fsub(p2.X, p1.X, PRIME_Q), PRIME_Q)
             x3 == fsub(lambda * lambda, p1.X + p2.X, PRIME_Q)
         IN  G1Point(x3, fsub(lambda * fsub(p1.X, x3, PRIME_Q), p1.Y, PRIME_Q))
\* unnamed/part_002:36 Pairing.plus(p1, p2): the call to precompile 6 fails,
\* and plus reverts, when an input is not a point
plus(p1, p2) ==
    IF isG1(p1) /\ isG1(p2) THEN Returned(ecAdd(p1, p2))
    ELSE Thrown(G1Point(0, 0))

\* --------------------------------------------- G2 words on each path
\* A line of the transcript is the point it prints,
\* G2(x=Fq2(Fq(re) + Fq(im) * u), y=Fq2(Fq(re) + Fq(im) * u)).
\* ts/convert_ppot.ts:16 processTauG2: the four matches of each line, in
\* the order they stand in the line
processTauG2(data) ==
    [i \in 1..Len(data) |->
       <<data[i].x.re, data[i].x.im, data[i].y.re, data[i].y.im>>]
\* the value lists of the generator filled in the order of the file
srsG2Values_fileOrder(tauG2, NUM_G2_POINTS) ==
    [srsG2X0 |-> [i \in 1..NUM_G2_POINTS |-> tauG2[i][1]],
     srsG2X1 |-> [i \in 1..NUM_G2_POINTS |-> tauG2[i][2]],
     srsG2Y0 |-> [i \in 1..NUM_G2_POINTS |-> tauG2[i][3]],
     srsG2Y1 |-> [i \in 1..NUM_G2_POINTS |-> tauG2[i][4]]]
\* ts/gen_constants_contract.ts:80 srsG2X0.push(tauG2[i][1]), ... (the file
\* counts from 0)
srsG2Values(tauG2, NUM_G2_POINTS) ==
    [srsG2X0 |-> [i \in 1..NUM_G2_POINTS |-> tauG2[i][2]],
     srsG2X1 |-> [i \in 1..NUM_G2_POINTS |-> tauG2[i][1]],
     srsG2Y0 |-> [i \in 1..NUM_G2_POINTS |-> tauG2[i][4]],
     srsG2Y1 |-> [i \in 1..NUM_G2_POINTS |-> tauG2[i][3]]]
\* The template of Constants.sol: each list of values becomes the array its
\* placeholder names
ConstantsContract(values) ==
    [SRS_G2_X_0 |-> values.srsG2X0, SRS_G2_X_1 |-> values.srsG2X1,
     SRS_G2_Y_0 |-> values.srsG2Y0, SRS_G2_Y_1 |-> values.srsG2Y1]
\* sol/KZGVerifier.sol:19 g2Generator (i = 1) and :25 SRS_G2_1 (i = 2)
contractG2Point(C, i) ==
    [X |-> <<C.SRS_G2_X_0[i], C.SRS_G2_X_1[i]>>,
     Y |-> <<C.SRS_G2_Y_0[i], C.SRS_G2_Y_1[i]>>]
\* Pairing.pairing: input[j + 2] .. input[j + 5]
pairingG2Words(p2) == <<p2.X[1], p2.X[2], p2.Y[1], p2.Y[2]>>
\* ts/index.ts:374 srsG2(): a G2 point as ffjavascript holds it,
\* [[x.re, x.im], [y.re, y.im]]
ffG2Point(point) == << <<point.x.re, point.x.im>>, <<point.y.re, point.y.im>> >>

\* the packing of isValidPairing on lists of 1..MaxPairs pairs; the
\* coordinates of a pair are pairwise different, and one of them may need
\* one digit more than a word holds
WordLimit == 16 ^ WordDigits
CoordinatePair(k) ==
    [G1 |-> <<6 * k + 1, 6 * k + 2>>,
     G2 |-> << <<6 * k + 3, 6 * k + 4>>, <<6 * k + 5, 6 * k + 6>> >>]
WidePairs ==
    {[CoordinatePair(0) EXCEPT !.G1[j] = WordLimit] : j \in 1..2}
    \cup {[CoordinatePair(0) EXCEPT !.G2[a][b] = WordLimit + 1] :
            a \in 1..2, b \in 1..2}
PackPairs == {CoordinatePair(0), CoordinatePair(1), CoordinatePair(2)}
             \cup {[CoordinatePair(0) EXCEPT !.G1[2] = WordLimit - 1]}
             \cup WidePairs
PackInputs == UNION {[1..n -> PackPairs] : n \in 1..MaxPairs}
HexStr ==
    /\ calc.fn = "none"
    /\ \E inputs \in PackInputs :
         calc' = [fn |-> "hexStr", inputs |-> inputs,
                  out |-> hexStr(inputs, 1, <<>>)]
    /\ UNCHANGED <<tau, coefficients, index, commitment, proof, call, indices>>

\* the SRS constructors on depths 0..MaxLen + 1, on every secret up to
\* FIELD_SIZE + 1, and on packaged files whose entries are G1.g or 2 * G1.g
Secrets == 0..(FIELD_SIZE + 1)
SrsFiles == [1..SrsG1Points -> {G1g, Pt(2)}]
SrsG1WithSecret ==
    /\ calc.fn = "none"
    /\ \E depth \in 0..MaxLen, secret \in Secrets :
         calc' = [fn |-> "srsG1(depth, secret)", depth |-> depth,
                  secret |-> secret, out |-> srsG1WithSecret(depth, secret)]
    /\ UNCHANGED <<tau, coefficients, index, commitment, proof, call, indices>>
SrsG2WithSecret ==
    /\ calc.fn = "none"
    /\ \E secret \in Secrets :
         calc' = [fn |-> "srsG2(secret)", secret |-> secret,
                  out |-> srsG2WithSecret(secret)]
    /\ UNCHANGED <<tau, coefficients, index, commitment, proof, call, indices>>
SrsG1FromFile ==
    /\ calc.fn = "none"
    /\ \E depth \in 0..(SrsG1Points + 1), file \in SrsFiles :
         calc' = [fn |-> "srsG1(depth)", depth |-> depth, file |-> file,
                  out |-> srsG1FromFile(depth, file)]
    /\ UNCHANGED <<tau, coefficients, index, commitment, proof, call, indices>>

\* Verifier.evalPolyAt on lists of at most MaxLen uint256 coefficients and
\* on every index up to FIELD_SIZE + 1, within the field and past it
EvalCoefficients == {0, 1, FIELD_SIZE - 1, FIELD_SIZE + 1}
EvalLists == UNION {[1..n -> EvalCoefficients] : n \in 0..MaxLen}
ContractEvalPolyAt ==
    /\ calc.fn = "none"
    /\ \E c \in EvalLists, idx \in 0..(FIELD_SIZE + 1) :
         calc' = [fn |-> "Verifier.evalPolyAt", coefficients |-> c,
                  index |-> idx, out |-> Verifier_evalPolyAt(c, idx)]
    /\ UNCHANGED <<tau, coefficients, index, commitment, proof, call, indices>>

\* Verifier.commit and the off-chain commit on the same coefficient list,
\* up to the number of SRS points the contract holds
ContractCommitLists ==
    UNION {[1..n -> {0, 1, FIELD_SIZE - 1}] : n \in 0..ContractSrsPoints}
ContractCommit ==
    /\ calc.fn = "none"
    /\ \E c \in ContractCommitLists :
         calc' = [fn |-> "Verifier.commit", coefficients |-> c,
                  out |-> Verifier_commit(c), offchain |-> commit(c)]
    /\ UNCHANGED <<tau, coefficients, index, commitment, proof, call, indices>>

\* Verifier.verifyMulti called directly: every G1 commitment and G2 proof,
\* one or two indices, up to three values, and coefficient lists among which
\* are the vanishing polynomials x, x - 1 and x * (x - 1)
MultiIndices == {<<0>>, <<1>>, <<0, 1>>}
MultiValues == UNION {[1..n -> {0, 1}] : n \in 0..3}
MultiICoeffs == {<<0>>, <<1>>, <<0, 1>>}
MultiZCoeffs == {<<0, 1>>, <<FIELD_SIZE - 1, 1>>, <<0, FIELD_SIZE - 1, 1>>}
ContractVerifyMultiDirect ==
    /\ calc.fn = "none"
    /\ \E cm \in {WPt(k) : k \in Scalars}, pf \in {WPt(k) : k \in Scalars},
          idxs \in MultiIndices, values \in MultiValues,
          ic \in MultiICoeffs, zc \in MultiZCoeffs :
         calc' = [fn |-> "Verifier.verifyMulti", commitment |-> cm,
                  proof |-> pf, indices |-> idxs, values |-> values,
                  iCoeffs |-> ic, zCoeffs |-> zc,
                  out |-> Verifier_verifyMulti(cm, pf, idxs, values, ic, zc)]
    /\ UNCHANGED <<tau, coefficients, index, commitment, proof, call, indices>>

\* a transcript of NumG2Points lines whose four coordinates are pairwise
\* different, through the converter, the generator and the contract, and
\* through isValidPairing
NumG2Points == 2
G2Lines ==
    {[x |-> [re |-> f[1], im |-> f[2]], y |-> [re |-> f[3], im |-> f[4]]] :
       f \in {g \in [1..4 -> 1..4] : \A a, b \in 1..4 : g[a] = g[b] => a = b}}
G2Words ==
    /\ calc.fn = "none"
    /\ \E data \in [1..NumG2Points -> G2Lines] :
         LET C == ConstantsContract(srsG2Values(processTauG2(data), NumG2Points))
         IN  calc' =
               [fn |-> "G2 words", data |-> data,
                stored |-> [i \in 1..NumG2Points |-> contractG2Point(C, i)],
                contract |-> [i \in 1..NumG2Points |->
                                pairingG2Words(contractG2Point(C, i))],
                offchain |-> [i \in 1..NumG2Points |->
                                SubSeq(hexStrOfPair(
                                         [G1 |-> <<1, 2>>,
                                          G2 |-> ffG2Point(data[i])]), 3, 6)]]
    /\ UNCHANGED <<tau, coefficients, index, commitment, proof, call, indices>>

\* Pairing.negate on every pair of uint256 words, and the sum of the pair
\* and its negation
Negate ==
    /\ calc.fn = "none"
    /\ \E X \in 0..UintMax, Y \in 0..UintMax :
         LET p == G1Point(X, Y)
         IN  calc' = [fn |-> "Pairing.negate", p |-> p, out |-> negate(p),
                      sum |-> plus(p, negate(p))]
    /\ UNCHANGED <<tau, coefficients, index, commitment, proof, call, indices>>

NextAlgebra ==
    \/ CommitSum \/ CommitScaled \/ GenCoefficients
    \/ GenQuotientPolynominal \/ CommitList \/ IsValidPairing
    \/ HexStr \/ SrsG1WithSecret \/ SrsG2WithSecret \/ SrsG1FromFile
    \/ ContractEvalPolyAt \/ ContractCommit \/ ContractVerifyMultiDirect
    \/ G2Words \/ Negate

SpecAlgebra == InitAlgebra /\ [][NextAlgebra]_vars

\* ------------------------------------------------- calls, step by step
\* One call of genCoefficients, genQuotientPolynominal, commit, genProof,
\* verify or verifyViaEIP197, run one loop iteration or one library call at
\* a time.  call holds the function and its arguments; calc is the frame:
\* pc the position, todo the calls still to make, i the loop counter, loops
\* the polyCommit loops that ended, with their coefficients, their group,
\* their length, the number of iterations they ran and their result.  The functions are synchronous and wait on nothing:
\* a step that can be taken is taken, which is the fairness of SpecSteps.
StepCoefficients == {-1, 1}
StepPolys == UNION {[1..n -> StepCoefficients] : n \in 0..(MaxLenAlg + 2)}
StepQuotientPolys == UNION {[1..n -> {0, 1}] : n \in 0..MaxLenAlg}
MaxStepValues == 1
StepValues == UNION {[1..n -> {0, 1, FIELD_SIZE}] : n \in 0..MaxStepValues}
StepPoints == {Gzero, G1g}
StepCalls ==
    {[op |-> "genCoefficients", values |-> v] : v \in StepValues}
    \cup {[op |-> "genQuotientPolynominal", coefficients |-> c, index |-> x] :
            c \in StepQuotientPolys, x \in 0..1}
    \cup {[op |-> "commit", coefficients |-> c] : c \in StepPolys}
    \cup {[op |-> "genProof", coefficients |-> c, index |-> x] :
            c \in StepQuotientPolys, x \in 0..1}
    \cup {[op |-> o, commitment |-> cm, proof |-> pf, index |-> x,
           value |-> v] :
            o \in {"verify", "verifyViaEIP197"}, cm \in StepPoints,
            pf \in StepPoints, x \in 0..1, v \in 0..1}
Job(name, coeffs, fromLast) ==
    [job |-> name, coeffs |-> coeffs, fromLast |-> fromLast]
Frame == [fn |-> "steps", pc |-> "start", todo |-> <<>>, i |-> 0,
          coeffs |-> <<>>, srs |-> <<>>, group |-> "G1", x |-> <<>>,
          result |-> Gzero,
          last |-> <<>>, loops |-> <<>>, out |-> "none"]

InitSteps ==
    /\ tau = 2
    /\ coefficients = <<>>
    /\ index = 0
    /\ commitment = NotYet
    /\ proof = NotYet
    /\ call = NoCall
    /\ calc = Frame
    /\ indices = <<>>

\* the calls a function makes, in the order it makes them
callsOf(c) ==
    CASE c.op = "genQuotientPolynominal" ->
           <<Job("genQuotientPolynominal", <<>>, FALSE)>>
      [] c.op = "commit" -> <<Job("commit", c.coefficients, FALSE)>>
      [] c.op = "genProof" ->
           <<Job("genQuotientPolynominal", <<>>, FALSE),
             Job("commit", <<>>, TRUE)>>
      [] c.op = "verify" ->
           <<Job("commit", <<c.value>>, FALSE),
             Job("polyCommit", <<c.index>>, FALSE),
             Job("pairing", <<>>, FALSE)>>
      [] c.op = "verifyViaEIP197" ->
           <<Job("commit", <<c.value>>, FALSE),
             Job("polyCommit", <<0, 1>>, FALSE),
             Job("polyCommit", <<c.index>>, FALSE),
             Job("pairing", <<>>, FALSE)>>
      [] OTHER -> <<>>

\* a function is called on some input
EnterCall ==
    /\ calc.pc = "start"
    /\ \E c \in StepCalls :
         /\ call' = c
         /\ calc' = IF c.op = "genCoefficients"
                    THEN [calc EXCEPT !.pc = "checkValues", !.i = 0]
                    ELSE [calc EXCEPT !.pc = "next", !.todo = callsOf(c)]
    /\ UNCHANGED <<tau, coefficients, index, commitment, proof, indices>>

\* the next call of the function body starts
BeginJob ==
    /\ calc.pc = "next" /\ calc.todo # <<>>
    /\ LET j == Head(calc.todo)
           c == IF j.fromLast THEN calc.last ELSE j.coeffs
       IN  calc' =
             CASE j.job = "commit" ->
                    [calc EXCEPT !.pc = "srsG1", !.todo = Tail(calc.todo),
                                 !.coeffs = c, !.srs = <<>>, !.i = 0,
                                 !.group = "G1"]
               [] j.job = "polyCommit" ->
                    [calc EXCEPT !.pc = "polyCommit",
                                 !.todo = Tail(calc.todo), !.coeffs = c,
                                 !.srs = srsG2, !.i = 0, !.result = Gzero,
                                 !.group = "G2"]
               [] OTHER ->
                    [calc EXCEPT !.pc = j.job, !.todo = Tail(calc.todo)]
    /\ UNCHANGED <<tau, coefficients, index, commitment, proof, call, indices>>

\* commit: srsG1(coefficients.length), its assertion on the depth, one round
\* of its loop, or its assertions on g1[0]; then polyCommit starts
SrsG1Step ==
    /\ calc.pc = "srsG1"
    /\ LET depth == Len(calc.coeffs)
       IN  calc' =
             IF depth > SrsG1Points THEN [calc EXCEPT !.pc = "thrown"]
             ELSE IF calc.i < depth
             THEN [calc EXCEPT !.i = calc.i + 1,
                     !.srs = Append(calc.srs,
                                    Pt(fexp(tau, calc.i, FIELD_SIZE)))]
             ELSE IF depth = 0 THEN [calc EXCEPT !.pc = "thrown"]
             ELSE [calc EXCEPT !.pc = "polyCommit", !.i = 0,
                               !.result = Gzero]
    /\ UNCHANGED <<tau, coefficients, index, commitment, proof, call, indices>>

\* the loop counter of polyCommit left as it is
polyCommitNext_stay(i) == i
\* polyCommit: i ++
polyCommitNext(i) == i + 1
\* one round of the loop of polyCommit, or its return
PolyCommitStep ==
    /\ calc.pc = "polyCommit"
    /\ LET n == Len(calc.coeffs)
           ended == Append(calc.loops,
                           [coeffs |-> calc.coeffs, group |-> calc.group,
                            len |-> n, ran |-> calc.i,
                            result |-> calc.result])
       IN  calc' =
             IF calc.i >= n
             THEN [calc EXCEPT !.pc = "next", !.last = calc.result,
                               !.loops = ended]
             ELSE IF calc.coeffs[calc.i + 1] < 0
                     \/ calc.i + 1 > Len(calc.srs)
             THEN [calc EXCEPT !.pc = "thrown", !.loops = ended]
             ELSE [calc EXCEPT !.i = polyCommitNext(calc.i),
                     !.result =
                        Gaffine(Gadd(calc.result,
                                     GmulScalar(calc.srs[calc.i + 1],
                                                calc.coeffs[calc.i + 1])))]
    /\ UNCHANGED <<tau, coefficients, index, commitment, proof, call, indices>>

\* genQuotientPolynominal: the calls to the field library
QuotientStep ==
    /\ calc.pc = "genQuotientPolynominal"
    /\ LET q == genQuotientPolynominal(call.coefficients, call.index,
                                       FIELD_SIZE)
       IN  calc' = IF q.ok THEN [calc EXCEPT !.pc = "next", !.last = q.v]
                   ELSE [calc EXCEPT !.pc = "thrown"]
    /\ UNCHANGED <<tau, coefficients, index, commitment, proof, call, indices>>

\* the pairings of verify and the pairing check of verifyViaEIP197
PairingStep ==
    /\ calc.pc = "pairing"
    /\ \E res \in IF call.op = "verify"
                  THEN verify(call.commitment, call.proof, call.index,
                              call.value)
                  ELSE {verifyViaEIP197(call.commitment, call.proof,
                                        call.index, call.value)} :
         calc' = [calc EXCEPT !.pc = "next", !.out = res]
    /\ UNCHANGED <<tau, coefficients, index, commitment, proof, call, indices>>

\* genCoefficients: one round of the loop that checks the values
CheckValueStep ==
    /\ calc.pc = "checkValues"
    /\ calc' =
         IF calc.i >= Len(call.values)
         THEN [calc EXCEPT !.pc = "pushX", !.i = 0, !.x = <<>>]
         ELSE IF call.values[calc.i + 1] >= FIELD_SIZE
         THEN [calc EXCEPT !.pc = "thrown"]
         ELSE [calc EXCEPT !.i = calc.i + 1]
    /\ UNCHANGED <<tau, coefficients, index, commitment, proof, call, indices>>

\* genCoefficients: one round of the loop that fills x
PushXStep ==
    /\ calc.pc = "pushX"
    /\ calc' =
         IF calc.i >= Len(call.values)
         THEN [calc EXCEPT !.pc = "interpolate"]
         ELSE [calc EXCEPT !.i = calc.i + 1, !.x = Append(calc.x, calc.i)]
    /\ UNCHANGED <<tau, coefficients, index, commitment, proof, call, indices>>

\* genCoefficients: field.interpolate(xVals, yVals)
InterpolateStep ==
    /\ calc.pc = "interpolate"
    /\ calc' = [calc EXCEPT !.pc = "checkCoefficients", !.i = 0,
                  !.last = interpolate(calc.x, call.values, FIELD_SIZE)]
    /\ UNCHANGED <<tau, coefficients, index, commitment, proof, call, indices>>

\* genCoefficients: one round of the loop that checks the coefficients
CheckCoefficientStep ==
    /\ calc.pc = "checkCoefficients"
    /\ calc' =
         IF calc.i >= Len(calc.last) THEN [calc EXCEPT !.pc = "next"]
         ELSE IF calc.last[calc.i + 1] >= FIELD_SIZE
         THEN [calc EXCEPT !.pc = "thrown"]
         ELSE [calc EXCEPT !.i = calc.i + 1]
    /\ UNCHANGED <<tau, coefficients, index, commitment, proof, call, indices>>

\* the function returns
ReturnStep ==
    /\ calc.pc = "next" /\ calc.todo = <<>>
    /\ calc' = [calc EXCEPT !.pc = "returned"]
    /\ UNCHANGED <<tau, coefficients, index, commitment, proof, call, indices>>

NextSteps ==
    \/ EnterCall \/ BeginJob \/ SrsG1Step \/ PolyCommitStep \/ QuotientStep
    \/ PairingStep \/ CheckValueStep \/ PushXStep \/ InterpolateStep
    \/ CheckCoefficientStep \/ ReturnStep

SpecSteps == InitSteps /\ [][NextSteps]_vars /\ WF_vars(NextSteps)

\* ------------------------------------------- calls on the same SRS
\* commit, genProof and verify called any number of times, in any order, on
\* the same SRS and the same input arrays.  The functions are synchronous:
\* a call runs to its end before the next one starts.  commitment and proof
\* keep what the first commit and the first genProof returned, calc.verified
\* what the first verify returned on each proof.
MaxCalls == 3
PolysCalls == UNION {[1..n -> {0, 1, FIELD_SIZE - 1}] : n \in 0..MaxLenAlg}
CallProofs == {Gzero, G1g, Pt(FIELD_SIZE - 1)}

InitCalls ==
    /\ tau \in 2..(FIELD_SIZE - 1)
    /\ coefficients \in PolysCalls
    /\ index \in Scalars
    /\ commitment = NotYet
    /\ proof = NotYet
    /\ call = NoCall
    /\ calc = [fn |-> "calls", count |-> 0,
               verified |-> [pf \in CallProofs |-> "none"]]
    /\ indices = <<>>

\* commit with a write to the SRS it reads
CallCommit_writesSrs ==
    /\ calc.count < MaxCalls
    /\ LET res == commit(coefficients)
       IN  /\ call' = [op |-> "commit", out |-> res]
           /\ commitment' = IF commitment.done THEN commitment ELSE Done(res)
    /\ calc' = [calc EXCEPT !.count = @ + 1]
    /\ tau' = 2 + ((tau - 1) % (FIELD_SIZE - 2))
    /\ UNCHANGED <<coefficients, index, proof, indices>>

CallCommit ==
    /\ calc.count < MaxCalls
    /\ LET res == commit(coefficients)
       IN  /\ call' = [op |-> "commit", out |-> res]
           /\ commitment' = IF commitment.done THEN commitment ELSE Done(res)
    /\ calc' = [calc EXCEPT !.count = @ + 1]
    /\ UNCHANGED <<tau, coefficients, index, proof, indices>>

CallGenProof ==
    /\ calc.count < MaxCalls
    /\ LET res == genProof(coefficients, index, FIELD_SIZE)
       IN  /\ call' = [op |-> "genProof", out |-> res]
           /\ proof' = IF proof.done THEN proof ELSE Done(res)
    /\ calc' = [calc EXCEPT !.count = @ + 1]
    /\ UNCHANGED <<tau, coefficients, index, commitment, indices>>

CallVerify ==
    /\ calc.count < MaxCalls
    /\ commit(coefficients).ok
    /\ \E pf \in CallProofs :
         \E res \in verify(commit(coefficients).v, pf, index, honestValue) :
            /\ call' = [op |-> "verify", proof |-> pf, result |-> res]
            /\ calc' = [calc EXCEPT !.count = @ + 1,
                                    !.verified[pf] =
                                        IF @ = "none" THEN res ELSE @]
    /\ UNCHANGED <<tau, coefficients, index, commitment, proof, indices>>

NextCalls == CallCommit \/ CallGenProof \/ CallVerify

SpecCalls == InitCalls /\ [][NextCalls]_vars

\* --------------------------------------------- multi-point sessions
MaxLenMulti == 2
PolysMulti == UNION {[1..n -> AlgCoefficients] : n \in 0..MaxLenMulti}
RECURSIVE ascending(_)
ascending(S) ==
    IF S = {} THEN <<>>
    ELSE LET x == CHOOSE y \in S : \A z \in S : y <= z
         IN  <<x>> \o ascending(S \ {x})
\* The lists of at most n distinct indices
IndexLists(n) == {ascending(S) : S \in {T \in SUBSET Scalars : Cardinality(T) <= n}}
honestValues ==
    [j \in 1..Len(indices) |-> evalPolyAt(coefficients, indices[j], FIELD_SIZE)]
\* The G2 proofs the contract is called with: the points of G2, (0, 0), and
\* a proof with its coordinates exchanged
ProofWords == {WPt(k) : k \in Scalars} \cup {OffCurve}

InitMulti ==
    /\ tau \in 2..(FIELD_SIZE - 1)
    /\ coefficients \in PolysMulti
    /\ indices \in IndexLists(Len(coefficients))
    /\ index = 0
    /\ commitment = NotYet
    /\ proof = NotYet
    /\ call = NoCall
    /\ calc = NoCalc

GenMultiProof ==
    /\ commitment.done /\ ~proof.done
    /\ proof' = Done(genMultiProof(coefficients, indices, FIELD_SIZE))
    /\ UNCHANGED <<tau, coefficients, index, commitment, call, calc, indices>>

ReadyMulti == commitment.ok /\ proof.done /\ proof.ok /\ call.op = "none"

VerifyMulti ==
    /\ ReadyMulti
    /\ call' = [op |-> "verifyMulti", commitment |-> commitment.v,
                proof |-> proof.v, indices |-> indices,
                values |-> honestValues,
                result |-> verifyMulti(commitment.v, proof.v, indices,
                                       honestValues, FIELD_SIZE)]
    /\ UNCHANGED <<tau, coefficients, index, commitment, proof, calc, indices>>

\* The contract is called with the parameters the packer builds from the
\* honest claim, or with these and another proof.
ContractVerifyMulti ==
    /\ ReadyMulti
    /\ \E params \in genMultiVerifierContractParams(commitment.v, proof.v,
                        indices, honestValues, FIELD_SIZE) :
         \E pf \in {params.proof} \cup ProofWords :
            call' = [op |-> "Verifier.verifyMulti",
                     commitment |-> params.commitment, proof |-> pf,
                     indices |-> params.indices, values |-> params.values,
                     iCoeffs |-> params.iCoeffs, zCoeffs |-> params.zCoeffs,
                     result |-> Verifier_verifyMulti(params.commitment, pf,
                                   params.indices, params.values,
                                   params.iCoeffs, params.zCoeffs)]
    /\ UNCHANGED <<tau, coefficients, index, commitment, proof, calc, indices>>

\* The coefficient lists put in the place of iCoeffs or zCoeffs
OtherCoeffs == {<<0>>, <<1>>, <<0, 1>>, <<1, 1>>}

\* The contract is called with the parameters the packer builds from the
\* honest claim and the honest proof, with iCoeffs or zCoeffs replaced.
ContractVerifyMultiCoeffs ==
    /\ ReadyMulti
    /\ \E params \in genMultiVerifierContractParams(commitment.v, proof.v,
                        indices, honestValues, FIELD_SIZE) :
         \E other \in OtherCoeffs, which \in {"iCoeffs", "zCoeffs"} :
            LET ic == IF which = "iCoeffs" THEN other ELSE params.iCoeffs
                zc == IF which = "zCoeffs" THEN other ELSE params.zCoeffs
            IN  call' = [op |-> "Verifier.verifyMulti:" \o which,
                         commitment |-> params.commitment,
                         proof |-> params.proof,
                         indices |-> params.indices, values |-> params.values,
                         iCoeffs |-> ic, zCoeffs |-> zc,
                         honest |-> IF which = "iCoeffs" THEN params.iCoeffs
                                    ELSE params.zCoeffs,
                         message |-> Verifier_verifyMulti_message(
                                       params.commitment, params.proof,
                                       params.indices, params.values, ic, zc),
                         result |-> Verifier_verifyMulti(
                                       params.commitment, params.proof,
                                       params.indices, params.values, ic, zc)]
    /\ UNCHANGED <<tau, coefficients, index, commitment, proof, calc, indices>>

NextMulti ==
    \/ Commit \/ GenMultiProof \/ VerifyMulti \/ ContractVerifyMulti
    \/ ContractVerifyMultiCoeffs

SpecMulti == InitMulti /\ [][NextMulti]_vars

\* ================================================================ claims
\* The last call was made on the prover's commitment.
OnCommitment ==
    call.commitment = (IF call.op = "Verifier.verify"
                       THEN toWire(commitment.v) ELSE commitment.v)
\* The proof of the last call is the point genProof returned.
SameProof ==
    /\ proof.ok
    /\ call.proof.c # "off"
    /\ call.proof.k = proof.v.k

\* C1 (as claimed): for every polynomial of length >= 1 and every index,
\* genProof returns a proof and verify(commit(p), genProof(p, z), z,
\* eval(p, z)) returns true.
C1_RoundTrip ==
    /\ (proof.done /\ Len(coefficients) >= 1 => proof.ok)
    /\ (call.op = "verify" /\ OnCommitment /\ SameProof
          /\ call.index = index /\ call.value = honestValue
        => call.result = "true")

\* verify on the commitment and the proof the prover got, at the prover's
\* index, with a value other than eval(p, z), returns false.
WrongValueRejected ==
    call.op = "verify" /\ OnCommitment /\ SameProof
      /\ call.index = index /\ call.value # honestValue
      /\ call.value < FIELD_SIZE
    => call.result = "false"

\* C2 (as claimed): for every polynomial and every index, commit and genProof
\* return, and verify(commit(p), genProof(p, z), z, y') returns false for
\* every value y' other than eval(p, z).
C2_WrongValue ==
    /\ (commitment.done => commitment.ok)
    /\ (proof.done => proof.ok)
    /\ WrongValueRejected

IntendedProof == IF proof.ok THEN proof.v ELSE Gzero
TamperedProofCall ==
    /\ call.op \in {"verify", "verifyViaEIP197", "Verifier.verify"}
    /\ OnCommitment /\ proof.done
    /\ ~(call.proof.c # "off" /\ call.proof.k = IntendedProof.k)
    /\ call.index = index /\ call.value = honestValue

C5_VerifiersAgree ==
    call.op = "verifyViaEIP197" /\ call.proof.c # "off"
    => verify(call.commitment, call.proof, call.index, call.value)
         = {call.result}
\* Whenever commit returns for p and for q, commit(p + q) returns the point
\* commit(p) + commit(q), and whenever commit returns for p,
\* commit(alpha * p) returns the point alpha * commit(p); coefficients are
\* added and scaled mod r.
HomomorphismWhereCommitReturns ==
    /\ (calc.fn = "commitSum" /\ calc.ofP.ok /\ calc.ofQ.ok
          => /\ calc.ofSum.ok
             /\ calc.ofSum.v = Gadd(calc.ofP.v, calc.ofQ.v))
    /\ (calc.fn = "commitScaled" /\ calc.ofP.ok
          => /\ calc.ofScaled.ok
             /\ calc.ofScaled.v = GmulScalar(calc.ofP.v, calc.alpha))

\* C14 (as claimed): verify called with the index r returns false, whatever
\* the commitment, the proof and the value.
C14_RangeRejection ==
    call.op = "verify" /\ call.index = FIELD_SIZE => call.result = "false"

\* One of the six integers of a contract call is r or more.
OutOfRangeCall ==
    /\ call.op = "Verifier.verify"
    /\ \/ ~belowBabyJubP(call.commitment) \/ ~belowBabyJubP(call.proof)
       \/ call.index >= BABYJUB_P \/ call.value >= BABYJUB_P

C16_ContractAgrees ==
    /\ call.op = "Verifier.verify"
    /\ call.index < FIELD_SIZE /\ call.value < FIELD_SIZE
    => \A P \in GPoints :
         toWire(P) = call.proof
         => verify(commitment.v, P, call.index, call.value) = {call.result}

\* C8 (as claimed): for all polynomials p and q within the SRS and every
\* scalar alpha, commit returns on p, q, p + q and alpha * p, and
\* commit(p + q) = commit(p) + commit(q), commit(alpha * p) = alpha * commit(p).
C8_Homomorphism ==
    /\ (calc.fn = "commitSum"
          => calc.ofP.ok /\ calc.ofQ.ok /\ calc.ofSum.ok)
    /\ (calc.fn = "commitScaled" => calc.ofP.ok /\ calc.ofScaled.ok)
    /\ HomomorphismWhereCommitReturns

\* The sum over i of coeffs[i] * g1_powers[i], g1_powers[i] = tau^i * G1.g
AlgebraicSum(coeffs) == Pt(evalPolyAt(coeffs, tau, FIELD_SIZE))
\* Whenever commit returns, it returns the algebraic sum.
AlgebraicSumWhereCommitReturns ==
    calc.fn = "commit" /\ calc.out.ok
    => calc.out.v = AlgebraicSum(calc.coefficients)

\* C11 (as claimed): for every coefficient list within the SRS, commit
\* returns the sum over i of coeffs[i] * g1_powers[i].
C11_AlgebraicSum ==
    calc.fn = "commit" /\ Len(calc.coefficients) <= SrsG1Points
    => /\ calc.out.ok
       /\ calc.out.v = AlgebraicSum(calc.coefficients)

\* C12 (as claimed): commit returns the identity of G1, and raises no error,
\* on the empty coefficient list and on a list of zeros.
C12_IdentityOnEmptyOrZero ==
    /\ calc.fn = "commit" /\ Len(calc.coefficients) <= SrsG1Points
    /\ \A i \in 1..Len(calc.coefficients) : calc.coefficients[i] = 0
    => calc.out.ok /\ calc.out.v = Gzero
\* On a non-empty list of zeros commit returns the identity.
IdentityOnZeros ==
    /\ calc.fn = "commit" /\ Len(calc.coefficients) \in 1..SrsG1Points
    /\ \A i \in 1..Len(calc.coefficients) : calc.coefficients[i] = 0
    => calc.out.ok /\ calc.out.v = Gzero

\* The number of values the README says the library can commit to (65536),
\* next to the 128 powers srsG1 hands out.
DocumentedG1Powers == SrsG1Points + 1
\* C13 (as claimed, for non-empty lists): commit returns for every
\* coefficient list of at most the documented number of values, and what it
\* returns is the commitment.
C13_DocumentedCapacity ==
    /\ (calc.fn = "commit"
          /\ Len(calc.coefficients) \in 1..DocumentedG1Powers
        => calc.out.ok)
    /\ AlgebraicSumWhereCommitReturns

\* The coefficients genCoefficients returned take the values at 0, 1, ...
Interpolates ==
    /\ calc.out.ok
    /\ Len(calc.out.v) = Len(calc.values)
    /\ \A i \in 1..Len(calc.values) :
         evalPolyAt(calc.out.v, i - 1, calc.p) = calc.values[i]

\* C9 (as claimed): for every list of values in [0, p), genCoefficients
\* returns coefficients that evaluate to values[i] at x = i in the field of
\* modulus p; over 127 the values [5, 25, 125] give [5, 107, 40].
C9_InterpolationAnyList ==
    calc.fn = "genCoefficients"
      /\ (\A i \in 1..Len(calc.values) : calc.values[i] \in 0..(calc.p - 1))
    => /\ Interpolates
       /\ (calc.p = 127 => calc.out.v = <<5, 107, 40>>)

\* C9 (amended): for every modulus p <= FIELD_SIZE and every list of at
\* most p values in [0, p), genCoefficients returns coefficients that
\* evaluate to values[i] at x = i in the field of modulus p; over 127 the
\* values [5, 25, 125] give [5, 107, 40].
C9_Interpolation ==
    calc.fn = "genCoefficients" /\ Len(calc.values) <= calc.p
      /\ calc.p <= calc.fieldSize
      /\ (\A i \in 1..Len(calc.values) : calc.values[i] \in 0..(calc.p - 1))
    => /\ Interpolates
       /\ (calc.p = 127 => calc.out.v = <<5, 107, 40>>)

C9_Witness ==
    /\ calc.fn = "genCoefficients" /\ calc.p = 127
    /\ calc.values = <<5, 25, 125>>
    /\ calc.out = Returned(<<5, 107, 40>>)

\* genCoefficients raises an assertion error on a value of FIELD_SIZE or
\* more.
RejectsLargeValues ==
    /\ calc.fn = "genCoefficients"
    /\ \E i \in 1..Len(calc.values) : calc.values[i] >= calc.fieldSize
    => ~calc.out.ok

\* C18 (as claimed): genCoefficients raises an assertion error, and returns
\* no coefficients, when a value is FIELD_SIZE or more or is negative,
\* whatever the modulus p.
C18_RejectsValuesOutsideField ==
    /\ calc.fn = "genCoefficients"
    /\ \E i \in 1..Len(calc.values) :
         calc.values[i] >= calc.fieldSize \/ calc.values[i] < 0
    => ~calc.out.ok

\* C19: isValidPairing raises an error on the empty list of pairs, and
\* returns true or false on every other list.
C19_EmptyPairingRaises ==
    calc.fn = "isValidPairing"
    => IF Len(calc.inputs) = 0 THEN calc.out = "throw"
       ELSE calc.out \in {"true", "false"}

C19_Witness ==
    calc.fn = "isValidPairing" /\ calc.inputs = <<>> /\ calc.out = "throw"

\* The product over the pairs of e(G1_i, G2_i) is the identity of GT.
RECURSIVE ProductIsOne(_, _)
ProductIsOne(pairs, acc) ==
    IF pairs = <<>> THEN acc % FIELD_SIZE = 0
    ELSE ProductIsOne(Tail(pairs), acc + pairs[1].G1.k * pairs[1].G2.k)
\* On pairs without the zero point of G1 or of G2, isValidPairing returns
\* true exactly when the product of the pairings is the identity.
PairingCheckOnNonZeroPoints ==
    /\ calc.fn = "isValidPairing" /\ Len(calc.inputs) >= 1
    /\ \A i \in 1..Len(calc.inputs) :
         calc.inputs[i].G1 # Gzero /\ calc.inputs[i].G2 # Gzero
    => (calc.out = "true" <=> ProductIsOne(calc.inputs, 0))

\* C21 (as claimed): isValidPairing returns true exactly when the product
\* over the pairs of e(G1_i, G2_i) is the identity of GT, as for
\* [(a * P, Q), (-P, a * Q)] with any scalar a.
C21_PairingCheck ==
    calc.fn = "isValidPairing" /\ Len(calc.inputs) >= 1
    => (calc.out = "true" <=> ProductIsOne(calc.inputs, 0))

\* the value a word of WordDigits hex digits stands for
RECURSIVE fromHex(_, _)
fromHex(digits, acc) ==
    IF digits = <<>> THEN acc
    ELSE fromHex(Tail(digits), 16 * acc + digits[1])
\* the coordinates of a pair in the order EIP-197 wants them: G1.x, G1.y,
\* then the imaginary part of G2.x, its real part, the imaginary part of
\* G2.y, its real part
Eip197Order(input) ==
    << input.G1[1], input.G1[2], input.G2[1][2], input.G2[1][1],
       input.G2[2][2], input.G2[2][1] >>
WordAt(str, n) == SubSeq(str, (n - 1) * WordDigits + 1, n * WordDigits)
\* C22: the packing has exactly 6 words of WordDigits digits per pair, in
\* input order, each pair as G1.x, G1.y, G2.x[1], G2.x[0], G2.y[1], G2.y[0],
\* each word the zero-padded hex form of its coordinate; it raises an error
\* as soon as a coordinate needs more digits than a word holds.
C22_Eip197Packing ==
    calc.fn = "hexStr" =>
      LET k == Len(calc.inputs)
          fits == \A i \in 1..k : \A j \in 1..6 :
                     Eip197Order(calc.inputs[i])[j] < WordLimit
      IN /\ calc.out.ok <=> fits
         /\ calc.out.ok =>
              /\ Len(calc.out.v) = 6 * k * WordDigits
              /\ \A i \in 1..k : \A j \in 1..6 :
                   /\ \A d \in 1..WordDigits :
                        WordAt(calc.out.v, 6 * (i - 1) + j)[d] \in 0..15
                   /\ fromHex(WordAt(calc.out.v, 6 * (i - 1) + j), 0)
                        = Eip197Order(calc.inputs[i])[j]
C22_Witness ==
    /\ calc.fn = "hexStr" /\ Len(calc.inputs) = 2 /\ calc.out.ok
    /\ calc.inputs[1] # calc.inputs[2]
    /\ calc.inputs[2].G1[2] = WordLimit - 1
    /\ WordAt(calc.out.v, 3) = padStart(<<4>>, WordDigits)

\* the polyCommit loops over the G2 SRS that a verifier ran to their end
VerifierCall == call.op \in {"verify", "verifyViaEIP197"}
G2Commits ==
    {k \in 1..Len(calc.loops) :
       calc.loops[k].group = "G2" /\ calc.loops[k].ran = calc.loops[k].len}
C24_SrsStructure ==
    /\ calc.fn = "srsG1(depth, secret)" =>
         /\ Len(calc.out) = calc.depth + 1
         /\ calc.out[1] = G1g
         /\ \A i \in 0..calc.depth :
              calc.out[i + 1] = Pt(fexp(calc.secret, i, FIELD_SIZE))
    /\ calc.fn = "srsG2(secret)" => calc.out = <<G2g, Pt(calc.secret)>>
    /\ calc.fn = "srsG1(depth)" =>
         /\ calc.out.ok => Len(calc.out.v) = calc.depth /\ calc.out.v[1] = G1g
         /\ calc.depth \in 1..SrsG1Points /\ calc.file[1] # G1g
              => ~calc.out.ok
C24_Witness ==
    /\ calc.fn = "srsG1(depth, secret)"
    /\ calc.depth = MaxLen /\ calc.secret = FIELD_SIZE - 2
    /\ calc.out[MaxLen + 1] = Pt(fexp(FIELD_SIZE - 2, MaxLen, FIELD_SIZE))
    /\ calc.out[2] # calc.out[3]

\* the sum of coeffs[i] * x^(i - 1) over the integers
RECURSIVE PowerSum(_, _, _)
PowerSum(coeffs, x, i) ==
    IF i > Len(coeffs) THEN 0
    ELSE coeffs[i] * (IF i = 1 THEN 1 ELSE x ^ (i - 1))
           + PowerSum(coeffs, x, i + 1)
\* C25: the contract's evalPolyAt returns the sum of coefficients[i] *
\* index^i modulo r for every coefficient list and every index, 0 for the
\* empty list, and the value field.evalPolyAt gives off-chain.
C25_ContractEvaluation ==
    calc.fn = "Verifier.evalPolyAt" =>
      /\ calc.out = PowerSum(calc.coefficients, calc.index, 1) % FIELD_SIZE
      /\ calc.out = evalPolyAt(calc.coefficients, calc.index, FIELD_SIZE)
      /\ calc.coefficients = <<>> => calc.out = 0
C25_Witness ==
    /\ calc.fn = "Verifier.evalPolyAt"
    /\ Len(calc.coefficients) = MaxLen
    /\ calc.coefficients[MaxLen] = FIELD_SIZE + 1
    /\ calc.index = FIELD_SIZE - 1
    /\ calc.out # 0
    /\ calc.out = evalPolyAt(calc.coefficients, calc.index, FIELD_SIZE)

\* Where the off-chain commit returns a point other than G.zero, the
\* contract returns the point with the same two coordinates.
ContractCommitOnNonZeroPoints ==
    calc.fn = "Verifier.commit" /\ calc.offchain.ok
      /\ calc.offchain.v # Gzero
    => calc.out.ok /\ calc.out.v = toWire(calc.offchain.v)
\* C26 (as claimed): for every coefficient list within the contract's SRS
\* length, the all-zero lists included, the contract's commit returns a
\* point whose X and Y are coordinates [0] and [1] of the off-chain commit.
C26_ContractCommitMatches ==
    calc.fn = "Verifier.commit"
      /\ Len(calc.coefficients) \in 1..ContractSrsPoints
    => /\ calc.out.ok /\ calc.offchain.ok
       /\ calc.out.v = toWire(calc.offchain.v)

\* every polyCommit loop that ended ran no more rounds than it had
\* coefficients, and exactly as many in a call that returned
LoopsRanInFull ==
    \A k \in 1..Len(calc.loops) :
       /\ calc.loops[k].ran <= calc.loops[k].len
       /\ calc.pc = "returned" => calc.loops[k].ran = calc.loops[k].len
\* C27: every call of genCoefficients, genQuotientPolynominal, commit,
\* genProof, verify and verifyViaEIP197 ends, by returning or by raising,
\* and when it has ended every polyCommit loop of a call that returned has
\* run exactly as many rounds as it had coefficients, none of them more.
C27_Terminates ==
    <>(calc.pc \in {"returned", "thrown"} /\ LoopsRanInFull)
C27_Witness ==
    /\ call.op = "verifyViaEIP197" /\ calc.pc = "returned"
    /\ Len(calc.loops) = 3
    /\ calc.loops[2].len = 2 /\ calc.loops[2].ran = 2
    /\ calc.out = "true"

\* _iCoeffs takes the j-th value and _zCoeffs vanishes at the j-th index
ValueChecked(j) ==
    /\ evalPolyAt(calc.iCoeffs, calc.indices[j], FIELD_SIZE) = calc.values[j]
    /\ evalPolyAt(calc.zCoeffs, calc.indices[j], FIELD_SIZE) = 0
\* When Verifier.verifyMulti returns true there are at least as many values
\* as indices and the value of every index was checked.
EveryIndexChecked ==
    calc.fn = "Verifier.verifyMulti" /\ calc.out = "true"
    => /\ Len(calc.values) >= Len(calc.indices)
       /\ \A j \in 1..Len(calc.indices) : ValueChecked(j)
\* C28 (as claimed): when the contract's verifyMulti returns true, _indices
\* and _values have the same length and every element of _values was
\* checked against _iCoeffs at its index, where _zCoeffs vanishes.
C28_EveryValueChecked ==
    calc.fn = "Verifier.verifyMulti" /\ calc.out = "true"
    => /\ Len(calc.values) = Len(calc.indices)
       /\ \A j \in 1..Len(calc.values) : ValueChecked(j)

\* C29: for a G2 point with x = x0 + x1 * u and y = y0 + y1 * u the
\* converter keeps the order x0, x1, y0, y1, the contract stores
\* X = [x1, x0] and Y = [y1, y0], and both Pairing.pairing and
\* isValidPairing send the words x1, x0, y1, y0.
C29_G2WordOrder ==
    calc.fn = "G2 words" =>
      \A i \in 1..Len(calc.data) :
        LET pt == calc.data[i]
            sent == <<pt.x.im, pt.x.re, pt.y.im, pt.y.re>>
        IN  /\ processTauG2(calc.data)[i]
                 = <<pt.x.re, pt.x.im, pt.y.re, pt.y.im>>
            /\ calc.stored[i].X = <<pt.x.im, pt.x.re>>
            /\ calc.stored[i].Y = <<pt.y.im, pt.y.re>>
            /\ calc.contract[i] = sent
            /\ \A w \in 1..4 :
                 /\ calc.offchain[i][w].ok
                 /\ fromHex(calc.offchain[i][w].v, 0) = sent[w]
C29_Witness ==
    /\ calc.fn = "G2 words"
    /\ calc.data[1] # calc.data[2]
    /\ calc.data[2].x = [re |-> 1, im |-> 2]
    /\ calc.contract[2] = <<2, 1, 4, 3>>
    /\ calc.offchain[2][1] = hexify(2)

\* C30 (as claimed): negate((0, 0)) = (0, 0), and for every other
\* p = (X, Y) negate returns (X, PRIME_Q - (Y mod PRIME_Q)), whose Y lies in
\* [0, PRIME_Q) and whose sum with p is the point at infinity.
C30_NegateEveryPair ==
    calc.fn = "Pairing.negate" =>
      IF calc.p = G1Point(0, 0) THEN calc.out = G1Point(0, 0)
      ELSE /\ calc.out = G1Point(calc.p.X, PRIME_Q - (calc.p.Y % PRIME_Q))
           /\ calc.out.Y \in 0..(PRIME_Q - 1)
           /\ calc.sum.ok /\ calc.sum.v = G1Point(0, 0)
\* C30 (amended): negate((0, 0)) = (0, 0); for every other pair it returns
\* (X, PRIME_Q - (Y mod PRIME_Q)), whose Y lies in [1, PRIME_Q] and is
\* PRIME_Q exactly when Y is a multiple of PRIME_Q; for every point of the
\* curve, whose coordinates are below PRIME_Q and whose Y is not 0, the
\* result is a point of the curve with Y in [1, PRIME_Q) and its sum with p
\* is the point at infinity.
C30_Negate ==
    calc.fn = "Pairing.negate" =>
      IF calc.p = G1Point(0, 0)
      THEN calc.out = G1Point(0, 0) /\ calc.sum = Returned(G1Point(0, 0))
      ELSE /\ calc.out = G1Point(calc.p.X, PRIME_Q - (calc.p.Y % PRIME_Q))
           /\ calc.out.Y \in 1..PRIME_Q
           /\ calc.out.Y = PRIME_Q <=> calc.p.Y % PRIME_Q = 0
           /\ isG1(calc.p) =>
                /\ calc.p.Y # 0
                /\ isG1(calc.out) /\ calc.out.Y \in 1..(PRIME_Q - 1)
                /\ calc.sum = Returned(G1Point(0, 0))
           /\ ~isG1(calc.p) => ~calc.sum.ok
C30_Witness ==
    /\ calc.fn = "Pairing.negate"
    /\ calc.p = G1Point(1, 2) /\ calc.out = G1Point(1, PRIME_Q - 2)
    /\ calc.sum = Returned(G1Point(0, 0))

\* C10 (as claimed): for every polynomial and x-value,
\* genQuotientPolynominal returns a quotient q with q(x) * (x - z) + p(z)
\* equal to p(x) coefficient by coefficient; for [5, 0, 2, 1] and z = 6 the
\* quotient is [48, 8, 1].
C10_DivisionConsistency ==
    calc.fn = "genQuotientPolynominal"
    => /\ calc.out.ok
       /\ LET m == calc.p
              yVal == evalPolyAt(calc.coefficients, calc.xVal, m)
              back == addPolys(mulPolys(calc.out.v,
                                        <<fsub(0, calc.xVal, m), 1>>, m),
                               <<yVal>>, m)
          IN  trim(back) = trim([i \in 1..Len(calc.coefficients) |->
                                   calc.coefficients[i] % m])
       /\ (calc.coefficients = <<5, 0, 2, 1>> /\ calc.xVal = 6
             => calc.out.v = <<48, 8, 1>>)
\* The contract was called with the proof genMultiProof returned.
SameMultiProof ==
    /\ call.proof.c \in {"curve", "inf00"}
    /\ call.proof.k = proof.v.k

\* C6 (as claimed, for a commitment and a proof that are not the zero
\* point): on the honest multi-point claim the off-chain verifyMulti returns
\* true, and the contract's verifyMulti returns true on the parameters
\* genMultiVerifierContractParams builds from it.
C6_MultiRoundTrip ==
    /\ (call.op = "verifyMulti" => call.result = "true")
    /\ (call.op = "Verifier.verifyMulti" /\ SameMultiProof
          /\ call.commitment.c = "curve" /\ call.proof.c = "curve"
        => call.result = "true")

ReplacedCoeffsCall(which) ==
    /\ call.op = "Verifier.verifyMulti:" \o which
    /\ belowBabyJubP(call.commitment) /\ belowBabyJubP2(call.proof)
\* The list takes the value ys[j] at every index (0 when ys is empty).
TakesValues(coeffs, ys) ==
    \A j \in 1..Len(call.indices) :
       evalPolyAt(coeffs, call.indices[j], FIELD_SIZE)
         = (IF ys = <<>> THEN 0 ELSE ys[j])

====
